---- MODULE Spec2Model ----
(***************************************************************************)
(* A model of mondrian2.py: the Vector / Line / Polygon primitives and the *)
(* Canvas that subdivides the unit square with random line segments; and   *)
(* of mondrian.py: the Mondrian object that adds horizontal and vertical   *)
(* lines to the unit square.                                               *)
(*                                                                         *)
(* Numbers.  The program computes with floats; the model computes with     *)
(* exact numbers of the form (n + e*EPS) / d, where n, e, d are integers,  *)
(* d > 0 and EPS is the program's constant 1.e-12.  Keeping the EPS part   *)
(* symbolic lets the model tell a parameter of -EPS/2 from 0 although      *)
(* 10^12 does not fit a machine integer.  Since |e| < 2^31 < 10^12, the    *)
(* sign of n + e*EPS is the sign of n, or of e when n = 0.  Rounding error *)
(* of the floating-point operations is not modelled.                       *)
(***************************************************************************)
EXTENDS Integers, Sequences, FiniteSets, Bags, TLC

VARIABLES
    lines,       \* Canvas.lines: the sequence of Line objects
    polygons,    \* Canvas.polygons: the set of Polygon objects, as a bag of
                 \* vertex sequences (Polygon has no __eq__: two objects with
                 \* the same vertices are two members of the set)
    pc,          \* "idle": no call in progress; "loop": inside make_painting
    i,           \* make_painting's loop variable i (0 outside a call)
    nlines,      \* make_painting's argument nlines (0 outside a call)
    minarea,     \* make_painting's argument minarea (None, or a number)
    orthogonal,  \* make_painting's argument orthogonal
    raised,      \* the exception the last call of make_painting raised, or "none"
    calls,       \* how many times make_painting has been called
    fn_in,       \* the argument of a function applied on its own
    fn_out,      \* its result
    mondrian     \* the Mondrian object of mondrian.py, or None

vars == <<lines, polygons, pc, i, nlines, minarea, orthogonal, raised, calls,
          fn_in, fn_out, mondrian>>

\* Python's None
None == [none |-> TRUE]

\* an exception exc raised where a value was expected
Raise(exc) == [exception |-> exc]

-----------------------------------------------------------------------------
(* Numbers (n + e*EPS) / d, kept in lowest terms.                          *)

Abs(k) == IF k < 0 THEN -k ELSE k

RECURSIVE GCD(_, _)
GCD(a, b) == IF b = 0 THEN a ELSE GCD(b, a % b)

Reduce(n, e, d, g) == [n |-> n \div g, e |-> e \div g, d |-> d \div g]
Norm(n, e, d) == Reduce(n, e, d, GCD(GCD(Abs(n), Abs(e)), d))

Num(n, d) == Norm(n, 0, d)

Zero == Num(0, 1)
One  == Num(1, 1)

\* EPS = 1.e-12
EPS == [n |-> 0, e |-> 1, d |-> 1]

Add(x, y) == Norm(x.n * y.d + y.n * x.d, x.e * y.d + y.e * x.d, x.d * y.d)
Neg(x)    == [n |-> -x.n, e |-> -x.e, d |-> x.d]
Sub(x, y) == Add(x, Neg(y))
\* A product: wherever the model multiplies, at most one factor has an EPS
\* part, so that no EPS^2 term arises.
Mul(x, y) == Norm(x.n * y.n, x.n * y.e + x.e * y.n, x.d * y.d)
\* A quotient x / y, for y # 0 with no EPS part.
Div(x, y) ==
    IF y.n > 0 THEN Norm(x.n * y.d, x.e * y.d, x.d * y.n)
               ELSE Norm(-(x.n * y.d), -(x.e * y.d), x.d * (-y.n))

Sign(x) == IF x.n > 0 THEN 1 ELSE IF x.n < 0 THEN -1
           ELSE IF x.e > 0 THEN 1 ELSE IF x.e < 0 THEN -1 ELSE 0
Less(x, y) == Sign(Sub(x, y)) < 0
Leq(x, y)  == Sign(Sub(x, y)) <= 0
NAbs(x)    == IF Sign(x) < 0 THEN Neg(x) ELSE x

-----------------------------------------------------------------------------
(* class Vector                                                            *)

Vector(x, y) == [x |-> x, y |-> y]

v_add(a, b) == Vector(Add(a.x, b.x), Add(a.y, b.y))
v_sub(a, b) == Vector(Sub(a.x, b.x), Sub(a.y, b.y))
v_mul(a, lam) == Vector(Mul(lam, a.x), Mul(lam, a.y))
dot(a, b) == Add(Mul(a.x, b.x), Mul(a.y, b.y))
cross(a, b) == Sub(Mul(a.x, b.y), Mul(a.y, b.x))

-----------------------------------------------------------------------------
(* class Line                                                              *)

Line(p, r) == [p |-> p, r |-> r]

from_endpoints(p, q) == Line(p, v_sub(q, p))

\* Line.intersection from the test of t and u on: the point p + t*r when
\* a faulty intersection_tu: the range of u is not tested
intersection_tu_any_u(p, r, t, u) ==
    IF Leq(Neg(EPS), t) /\ Leq(t, Add(One, EPS))
    THEN v_add(p, v_mul(r, t))
    ELSE None

\* both parameters are in [-EPS, 1+EPS], or None
intersection_tu(p, r, t, u) ==
    IF /\ Leq(Neg(EPS), t) /\ Leq(t, Add(One, EPS))
       /\ Leq(Neg(EPS), u) /\ Leq(u, Add(One, EPS))
    THEN v_add(p, v_mul(r, t))
    ELSE None

\* Line.intersection from the test of rxs on; qp is q - p
intersection_rxs(p, r, s, qp, rxs) ==
    IF rxs = Zero THEN None
    ELSE intersection_tu(p, r, Div(cross(qp, s), rxs), Div(cross(qp, r), rxs))

\* Line.intersection: the intersection point, or None
intersection(self, other) ==
    intersection_rxs(self.p, self.r, other.r, v_sub(other.p, self.p),
                     cross(self.r, other.r))

get_point_on_line(self, u) == v_add(self.p, v_mul(self.r, u))

is_parallel(self, other) == Less(NAbs(cross(self.r, other.r)), EPS)

\* a faulty is_colinear: parallel lines pass for colinear ones
is_colinear_if_parallel(self, other) == is_parallel(self, other)

is_colinear(self, other) ==
    /\ is_parallel(self, other)
    /\ Less(NAbs(cross(v_sub(self.p, other.p), self.r)), EPS)

-----------------------------------------------------------------------------
(* class Polygon: a polygon is its vertex sequence; n, area and edges are   *)
(* computed from it by the constructor and never change.                    *)

\* the position after k in a loop of n positions 1..n: (i+1) % self.n
succ(k, n) == (k % n) + 1

RECURSIVE shoelace(_, _)
\* s1 - s2 of get_area, summed over the vertices k..n
shoelace(vertices, k) ==
    IF k > Len(vertices) THEN Zero
    ELSE Add(Sub(Mul(vertices[k].x, vertices[succ(k, Len(vertices))].y),
                 Mul(vertices[k].y, vertices[succ(k, Len(vertices))].x)),
             shoelace(vertices, k + 1))

get_area(vertices) == Div(NAbs(shoelace(vertices, 1)), Num(2, 1))

get_edges(vertices) ==
    [k \in 1..Len(vertices) |->
        from_endpoints(vertices[k], vertices[succ(k, Len(vertices))])]

\* the list [edge.p + edge.r for edge in edges]
endpoints(edges) == [k \in 1..Len(edges) |-> v_add(edges[k].p, edges[k].r)]

\* a faulty split_edges: vertices1 takes self.edges[i2+1:], one vertex short
split_edges_short(edges, i1, p1, i2, p2) ==
    << endpoints(SubSeq(edges, 1, i1)) \o <<p1, p2>>
          \o endpoints(SubSeq(edges, i2 + 2, Len(edges))),
       endpoints(SubSeq(edges, i1 + 1, i2)) \o <<p2, p1>> >>

\* vertices1 and vertices2 of Polygon.split; i1, i2 are the 0-based edge
\* indices of the source
split_edges(edges, i1, p1, i2, p2) ==
    << endpoints(SubSeq(edges, 1, i1)) \o <<p1, p2>>
          \o endpoints(SubSeq(edges, i2 + 1, Len(edges))),
       endpoints(SubSeq(edges, i1 + 1, i2)) \o <<p2, p1>> >>

\* a faulty split: p1 and p2 change places
split_swapped(vertices, hits) ==
    split_edges(get_edges(vertices),
                hits[1][1], hits[2][2], hits[2][1], hits[1][2])

\* Polygon.split: intersections = (i1, p1), (i2, p2)
split(vertices, hits) ==
    split_edges(get_edges(vertices),
                hits[1][1], hits[1][2], hits[2][1], hits[2][2])

-----------------------------------------------------------------------------
(* Bounds of the model.                                                    *)

\* random.random() returns k / RandomSteps for some k in 0..RandomSteps-1
RandomSteps == 2
\* make_painting is called with nlines in 1..MaxNLines
MaxNLines == 2
\* make_painting is called at most MaxCalls times
MaxCalls == 2
\* at most MaxLines lines are added to the four borders
MaxLines == 2

\* a function applied on its own takes points with coordinates in 0..MaxCoord
MaxCoord == 2
\* and displacements with components in -MaxDisp..MaxDisp
MaxDisp == 1
\* and points moved off the grid by k * EPS/2, k in -MaxOff..MaxOff
MaxOff == 3
\* and polygons of 3..MaxVerts vertices
MaxVerts == 4

\* the values random.random() may return: [0, 1)
Randoms == {Num(k, RandomSteps) : k \in 0..(RandomSteps - 1)}

\* the values of minarea a caller passes: None, or the floor 1/8
MinAreas == {None, Num(1, 8)}

-----------------------------------------------------------------------------
(* class Canvas                                                            *)

corners == <<Vector(Zero, Zero), Vector(Zero, One),
             Vector(One, One), Vector(One, Zero)>>

\* Canvas.__init__: the four borders, and the unit square as one polygon
init_lines ==
    <<Line(corners[1], Vector(Zero, One)),
      Line(corners[2], Vector(One, Zero)),
      Line(corners[3], Vector(Zero, Neg(One))),
      Line(corners[4], Vector(Neg(One), Zero))>>

init_polygons == SetToBag({corners})

\* the pairs (i, p) for the positions ks of the points ps that are not None
hit_pairs(ps, ks) == [j \in 1..Len(ks) |-> <<ks[j] - 1, ps[ks[j]]>>]

\* "if p: intersections.append((i, p))" over the results ps of
\* new_line.intersection(edge): a Vector is always true, None is false
hit_list(ps) ==
    hit_pairs(ps, SelectSeq([k \in 1..Len(ps) |-> k], LAMBDA k : ps[k] # None))

\* the list "intersections" that split_polygons collects over the edges of
\* one polygon: the pairs (i, p), i the 0-based index of an edge that
\* new_line intersects at p
edge_hits(new_line, edges) ==
    hit_list([k \in 1..Len(edges) |-> intersection(new_line, edges[k])])

intersections(new_line, vertices) == edge_hits(new_line, get_edges(vertices))

\* a faulty split_set: two intersections or more
split_set_two_or_more(pols, new_line) ==
    {P \in BagToSet(pols) : Len(intersections(new_line, P)) >= 2}

\* the polygons of the set that new_line intersects exactly twice
split_set(pols, new_line) ==
    {P \in BagToSet(pols) : Len(intersections(new_line, P)) = 2}

\* the bag of the children ch[P][1], ch[P][2] of the polygons P in S, each
\* as often as its parent is in pols
new_bag(pols, S, ch) ==
    [c \in {ch[w[1]][w[2]] : w \in S \X {1, 2}} |->
        BagCardinality([w \in {v \in S \X {1, 2} : ch[v[1]][v[2]] = c} |->
                           pols[w[1]]])]

\* old_polygons and new_polygons, for the set S of polygons to split
split_result(pols, new_line, S) ==
    [old |-> [P \in S |-> pols[P]],
     new |-> new_bag(pols, S,
                     [P \in S |-> split(P, intersections(new_line, P))])]

\* Canvas.split_polygons
split_polygons(pols, new_line) ==
    split_result(pols, new_line, split_set(pols, new_line))

\* a faulty update_polygons: the old polygons stay
update_polygons_keep_old(pols, old_polygons, new_polygons) ==
    pols (+) new_polygons

\* Canvas.update_polygons
update_polygons(pols, old_polygons, new_polygons) ==
    (pols (-) old_polygons) (+) new_polygons

\* Canvas.add_line
add_line(ls, new_line) == Append(ls, new_line)

\* Canvas.get_new_line: the lines it may return
get_new_line(ls) ==
    {from_endpoints(get_point_on_line(ls[w[1]], w[3]),
                    get_point_on_line(ls[w[2]], w[4])) :
        w \in {v \in (1..Len(ls)) \X (1..Len(ls)) \X Randoms \X Randoms :
                  v[1] # v[2]}}

\* get_xy: "x" for a horizontal line, "y" for a vertical one
get_xy(line) == IF Less(NAbs(line.r.y), EPS) THEN "x" ELSE "y"
get_other_xy(xy) == IF xy = "x" THEN "y" ELSE "x"

getattr(v, xy) == IF xy = "x" THEN v.x ELSE v.y

\* c1 <= c <= c2 for c1, c2 = sorted([a, b])
between(a, c, b) ==
    IF Leq(a, b) THEN Leq(a, c) /\ Leq(c, b) ELSE Leq(b, c) /\ Leq(c, a)

\* the list parallel_lines of get_new_orthogonal_line, as positions in ls;
\* xy is get_xy(line1) and c is getattr(start, xy)
parallel_to(ls, line1, xy, c) ==
    {k \in 1..Len(ls) :
        /\ ~is_colinear(ls[k], line1)
        /\ get_xy(ls[k]) = xy
        /\ between(getattr(ls[k].p, xy), c,
                   getattr(v_add(ls[k].p, ls[k].r), xy))}

parallel_lines(ls, line1, start) ==
    parallel_to(ls, line1, get_xy(line1), getattr(start, get_xy(line1)))

\* a faulty end_point: the line ends at line2.p
end_point_at_p(xy, start, line2) == line2.p

\* end: start's xy attribute and line2.p's other attribute
end_point(xy, start, line2) ==
    IF xy = "x" THEN Vector(start.x, getattr(line2.p, get_other_xy(xy)))
                ELSE Vector(getattr(line2.p, get_other_xy(xy)), start.y)

\* what get_new_orthogonal_line may return for line1 and start: a line, or
\* the IndexError of random.choice where parallel_lines is empty
orthogonal_from(ls, line1, start, par) ==
    IF par = {} THEN {Raise("IndexError")}
    ELSE {from_endpoints(start, end_point(get_xy(line1), start, ls[k])) :
             k \in par}

orthogonal_at(ls, line1, start) ==
    orthogonal_from(ls, line1, start, parallel_lines(ls, line1, start))

\* Canvas.get_new_orthogonal_line
get_new_orthogonal_line(ls) ==
    UNION {orthogonal_at(ls, ls[w[1]], get_point_on_line(ls[w[1]], w[2])) :
           w \in (1..Len(ls)) \X Randoms}

\* a faulty min2: the larger of the two
min2_max(a, b) == IF Leq(a, b) THEN b ELSE a

min2(a, b) == IF Leq(a, b) THEN a ELSE b

RECURSIVE min_area(_)
\* min(polygon.area for polygon in new_polygons), new_polygons not empty
min_from(S, P) ==
    IF S = {P} THEN get_area(P)
    ELSE min2(get_area(P), min_area(S \ {P}))
min_area(S) == min_from(S, CHOOSE Q \in S : TRUE)

-----------------------------------------------------------------------------
(* The state machine: a Canvas and the calls of make_painting on it.       *)

Init ==
    /\ lines = init_lines
    /\ polygons = init_polygons
    /\ pc = "idle"
    /\ i = 0
    /\ nlines = 0
    /\ minarea = None
    /\ orthogonal = FALSE
    /\ raised = "none"
    /\ calls = 0
    /\ fn_in = None
    /\ fn_out = None
    /\ mondrian = None

\* a call make_painting(n, m, o); the model follows the calls that ask for no
\* more lines than MaxLines leaves room for
make_painting(n, m, o) ==
    /\ pc = "idle"
    /\ calls < MaxCalls
    /\ Len(lines) + n <= 4 + MaxLines
    /\ pc' = "loop"
    /\ i' = 0
    /\ nlines' = n
    /\ minarea' = m
    /\ orthogonal' = o
    /\ raised' = "none"
    /\ calls' = calls + 1
    /\ UNCHANGED <<lines, polygons, fn_in, fn_out, mondrian>>

\* the exception exc leaves make_painting
raise(exc) ==
    /\ pc' = "idle"
    /\ raised' = exc
    /\ i' = 0
    /\ nlines' = 0
    /\ UNCHANGED <<lines, polygons, minarea, orthogonal, calls, fn_in, fn_out, mondrian>>

\* the loop is left by "break": update_polygons, add_line, and the next i
commit(new_line, sp) ==
    /\ polygons' = update_polygons(polygons, sp.old, sp.new)
    /\ lines' = add_line(lines, new_line)
    /\ i' = i + 1
    /\ UNCHANGED <<pc, nlines, minarea, orthogonal, raised, calls,
                   fn_in, fn_out, mondrian>>

\* "if minarea:" and what follows, sp being what split_polygons returned
check_minarea(new_line, sp) ==
    IF minarea # None /\ minarea # Zero
    THEN IF sp.new = EmptyBag
         THEN raise("ValueError")          \* min() of an empty sequence
         ELSE IF Leq(minarea, min_area(BagToSet(sp.new)))
              THEN commit(new_line, sp)
              ELSE UNCHANGED vars          \* go back around
    ELSE commit(new_line, sp)

\* one pass of the "while True" loop with the candidate new_line, and, when
\* the pass breaks out of the loop, the rest of the "for" body
loop_body(new_line) ==
    IF new_line = Raise("IndexError") THEN raise("IndexError")
    ELSE check_minarea(new_line, split_polygons(polygons, new_line))

make_painting_iter ==
    /\ pc = "loop"
    /\ i < nlines
    /\ Len(lines) < 4 + MaxLines
    /\ \E new_line \in (IF orthogonal THEN get_new_orthogonal_line(lines)
                                      ELSE get_new_line(lines)) :
          loop_body(new_line)

\* the "for" loop ends and make_painting returns
make_painting_return ==
    /\ pc = "loop"
    /\ i = nlines
    /\ pc' = "idle"
    /\ i' = 0
    /\ nlines' = 0
    /\ UNCHANGED <<lines, polygons, minarea, orthogonal, raised, calls,
                   fn_in, fn_out, mondrian>>

Next ==
    \/ \E n \in 1..MaxNLines, m \in MinAreas, o \in BOOLEAN :
          make_painting(n, m, o)
    \/ make_painting_iter
    \/ make_painting_return

Spec == Init /\ [][Next]_vars

-----------------------------------------------------------------------------
(* Geometry used to state the properties.                                  *)

\* the sign of r x (v - p): on which side of the line e the point v lies
side(e, v) == Sign(cross(e.r, v_sub(v, e.p)))

\* the point v lies on the segment e
on_segment(v, e) ==
    /\ side(e, v) = 0
    /\ Leq(Zero, dot(v_sub(v, e.p), e.r))
    /\ Leq(dot(v_sub(v, e.p), e.r), dot(e.r, e.r))

Range(f) == {f[k] : k \in DOMAIN f}

\* the line through the edge e has P on one side and Q on the other
separates(e, P, Q) ==
    /\ e.r # Vector(Zero, Zero)
    /\ \/ /\ \A v \in Range(P) : side(e, v) >= 0
          /\ \A v \in Range(Q) : side(e, v) <= 0
       \/ /\ \A v \in Range(P) : side(e, v) <= 0
          /\ \A v \in Range(Q) : side(e, v) >= 0

\* an edge of P or of Q separates them: their interiors do not overlap
separated(P, Q) ==
    \E e \in Range(get_edges(P)) \cup Range(get_edges(Q)) : separates(e, P, Q)

\* all vertices of P lie on one line: P has no interior
flat(P) ==
    \A a, b, c \in Range(P) : cross(v_sub(b, a), v_sub(c, a)) = Zero

RECURSIVE total_area(_, _)
\* the sum of the areas of the polygons S of the bag B, with their copies
area_from(B, S, P) ==
    Add(Mul(Num(B[P], 1), get_area(P)), total_area(B, S \ {P}))
total_area(B, S) ==
    IF S = {} THEN Zero ELSE area_from(B, S, CHOOSE Q \in S : TRUE)

\* minarea is a floor: "if minarea:" holds
has_floor == minarea # None /\ minarea # Zero

-----------------------------------------------------------------------------
(* The properties.                                                         *)

\* C1. Area conservation: in every reachable state the areas of the polygons
\* of Canvas.polygons sum to 1, the area of the unit square.
C1_AreaConservation == total_area(polygons, BagToSet(polygons)) = One

\* two lines were accepted and at least three polygons exist
C1_Witness == Len(lines) = 6 /\ BagCardinality(polygons) >= 3

\* C2. Partition: in every reachable state no two distinct polygons of
\* Canvas.polygons have overlapping interiors. A polygon of area 0 has all
\* its vertices on one line and so no interior; a polygon with an interior is
\* in the set once, and any two of them are separated by the line through an
\* edge of one of them.
C2_Partition ==
    \A P \in BagToSet(polygons) :
        IF get_area(P) = Zero THEN flat(P)
        ELSE /\ polygons[P] = 1
             /\ \A Q \in BagToSet(polygons) :
                   (Q # P /\ get_area(Q) # Zero) => separated(P, Q)

\* at least three polygons with an interior exist
C2_Witness ==
    Cardinality({P \in BagToSet(polygons) : get_area(P) # Zero}) >= 3

\* C3. Minimum area: during and after the first call of make_painting on a
\* fresh Canvas, made with a floor minarea, every polygon of Canvas.polygons
\* has an area of at least minarea.
C3_MinArea ==
    (calls = 1 /\ has_floor) =>
        \A P \in BagToSet(polygons) : Leq(minarea, get_area(P))

\* the first call, with a floor, has committed two rounds and returned
C3_Witness ==
    /\ calls = 1 /\ has_floor /\ pc = "idle" /\ raised = "none"
    /\ Len(lines) = 6 /\ BagCardinality(polygons) >= 3

\* C4. make_painting with minarea set never fails with an error: no call
\* made with a floor raises an exception.
C4_NoError == has_floor => raised = "none"

\* C5. Orthogonal generation never fails for want of an L2: in every state
\* make_painting can be in (every Canvas is reached inside the loop), for
\* every line1 of Canvas.lines and every sampled point on it, parallel_lines
\* is not empty; and no call raises IndexError.
C5_OrthogonalNeverFails ==
    /\ raised # "IndexError"
    /\ pc = "loop" => \A k \in 1..Len(lines), u \in Randoms :
          parallel_lines(lines, lines[k],
                         get_point_on_line(lines[k], u)) # {}

\* an orthogonal round has been committed and another is about to run
C5_Witness == orthogonal /\ pc = "loop" /\ i = 1 /\ nlines = 2 /\ Len(lines) > 4

\* C6. Orthogonality: during and after the first call of make_painting on a
\* fresh Canvas, made with orthogonal=True, every line beyond the four
\* borders has a zero x- or y-displacement and both its endpoints lie on
\* lines that precede it in Canvas.lines.
C6_Orthogonality ==
    (calls = 1 /\ orthogonal) =>
        \A k \in 5..Len(lines) :
            /\ lines[k].r.x = Zero \/ lines[k].r.y = Zero
            /\ \E j \in 1..(k - 1) : on_segment(lines[k].p, lines[j])
            /\ \E j \in 1..(k - 1) :
                  on_segment(v_add(lines[k].p, lines[k].r), lines[j])

\* two orthogonal lines were added, one horizontal and one vertical
C6_Witness ==
    /\ calls = 1 /\ orthogonal /\ Len(lines) = 6
    /\ lines[5].r.x = Zero /\ lines[6].r.y = Zero

\* C9. Every polygon that Polygon.split produced is a simple polygon: it has
\* at least three vertices, no vertex twice, and an area that is not zero.
\* (Every polygon of Canvas.polygons but the unit square came from split.)
C9_ChildrenSimple ==
    \A P \in BagToSet(polygons) :
        /\ Len(P) >= 3
        /\ \A a, b \in 1..Len(P) : a # b => P[a] # P[b]
        /\ get_area(P) # Zero

\* the number of edges of the polygon P that the line c intersects
hit_count(c, P) ==
    Cardinality({k \in 1..Len(P) : intersection(c, get_edges(P)[k]) # None})

\* the polygons of the bag B that the line c intersects exactly twice
hit_twice(c, B) == {P \in BagToSet(B) : hit_count(c, P) = 2}

\* what a committed round with the candidate c does to the Canvas
C10_Step(c) ==
    /\ lines' = Append(lines, c)
    /\ \A P \in BagToSet(polygons) \ hit_twice(c, polygons) :
          /\ P \in BagToSet(polygons')
          /\ polygons'[P] >= polygons[P]
    /\ \A P \in hit_twice(c, polygons) :
          /\ P \notin BagToSet(polygons')
          /\ \A k \in 1..2 :
                split(P, intersections(c, P))[k] \in BagToSet(polygons')
    /\ BagCardinality(polygons') =
          BagCardinality(polygons)
          + BagCardinality([P \in hit_twice(c, polygons) |-> polygons[P]])

\* C10. Only polygons hit exactly twice are replaced: a committed round
\* appends its candidate to Canvas.lines, leaves every polygon the candidate
\* intersects 0, 1 or more than 2 times in Canvas.polygons, removes every
\* polygon hit exactly twice and adds its two children, so that the number
\* of polygons grows by the number of polygons split.
C10_OnlyTwiceHitReplaced ==
    [][i' = i + 1 => C10_Step(lines'[Len(lines')])]_vars

\* two candidates were committed, and only one of them split a polygon
C10_Witness == Len(lines) = 6 /\ BagCardinality(polygons) = 2

-----------------------------------------------------------------------------
(* Line.intersection and Polygon.split applied on their own: the state is  *)
(* the argument fn_in, and after the call the result fn_out.               *)

Grid == {Vector(Num(x, 1), Num(y, 1)) : x, y \in 0..MaxCoord}
Disps == {Vector(Num(x, 1), Num(y, 1)) : x, y \in (-MaxDisp)..MaxDisp}
\* the offsets k * EPS/2
Offsets == {Norm(0, k, 2) : k \in (-MaxOff)..MaxOff}

\* pairs of lines: the first on the grid, the second moved by an offset in x
LinePairs ==
    {<<Line(w[1], w[2]), Line(Vector(Add(w[3].x, w[5]), w[3].y), w[4])>> :
        w \in Grid \X Disps \X Grid \X Disps \X Offsets}

fresh_canvas ==
    /\ lines = init_lines
    /\ polygons = init_polygons
    /\ i = 0
    /\ nlines = 0
    /\ minarea = None
    /\ orthogonal = FALSE
    /\ raised = "none"
    /\ calls = 0

canvas_vars == <<lines, polygons, i, nlines, minarea, orthogonal, raised, calls>>

InitIntersection ==
    /\ fresh_canvas
    /\ pc = "call"
    /\ fn_in \in LinePairs
    /\ fn_out = None
    /\ mondrian = None

\* fn_out = fn_in[1].intersection(fn_in[2])
call_intersection ==
    /\ pc = "call"
    /\ fn_out' = intersection(fn_in[1], fn_in[2])
    /\ pc' = "return"
    /\ UNCHANGED <<canvas_vars, fn_in, mondrian>>

SpecIntersection == InitIntersection /\ [][call_intersection]_vars

\* the two segments, not parallel, have a common point: the ends of each lie
\* on opposite sides of, or on, the line through the other
common_point(a, b) ==
    /\ side(a, b.p) * side(a, v_add(b.p, b.r)) <= 0
    /\ side(b, a.p) * side(b, v_add(a.p, a.r)) <= 0

\* the ends of the segment a made longer by EPS times a.r at both ends
ext_lo(a) == v_sub(a.p, v_mul(a.r, EPS))
ext_hi(a) == v_add(a.p, v_mul(a.r, Add(One, EPS)))

\* the two segments, not parallel, each made longer by EPS times its
\* displacement at both ends, have a common point
common_point_ext(a, b) ==
    /\ side(a, ext_lo(b)) * side(a, ext_hi(b)) <= 0
    /\ side(b, ext_lo(a)) * side(b, ext_hi(a)) <= 0

\* the point v lies on the lines through a and through b
on_both_lines(v, a, b) == side(a, v) = 0 /\ side(b, v) = 0

C7_Claim(a, b, out) ==
    IF cross(a.r, b.r) = Zero THEN out = None
    ELSE /\ (out # None) <=> common_point(a, b)
         /\ out # None => on_both_lines(out, a, b)

C7_Amended(a, b, out) ==
    IF cross(a.r, b.r) = Zero THEN out = None
    ELSE /\ (out # None) <=> common_point_ext(a, b)
         /\ out # None => on_both_lines(out, a, b)

\* C7 as claimed. a.intersection(b) is None whenever a.r x b.r = 0; otherwise
\* it is a point exactly when the two segments have a common point (t and u
\* in [0, 1]), and that point is the common point.
C7_IntersectionExact ==
    pc = "return" => C7_Claim(fn_in[1], fn_in[2], fn_out)

\* C7, amended. a.intersection(b) is None whenever a.r x b.r = 0; otherwise
\* it is a point exactly when t and u lie in [-EPS, 1+EPS], that is when the
\* two segments, each made longer by EPS times its displacement at both
\* ends, have a common point; and the point returned is the common point of
\* the two lines.
C7_IntersectionTolerant ==
    pc = "return" => C7_Amended(fn_in[1], fn_in[2], fn_out)

\* a point was returned for two segments that miss each other by EPS/2
C7_Witness ==
    /\ pc = "return" /\ fn_out # None
    /\ ~common_point(fn_in[1], fn_in[2])

\* the two segments have a common point
touch(a, b) ==
    \/ cross(a.r, b.r) # Zero /\ common_point(a, b)
    \/ on_segment(b.p, a) \/ on_segment(v_add(b.p, b.r), a)
    \/ on_segment(a.p, b) \/ on_segment(v_add(a.p, a.r), b)

\* the edges k and l of a polygon of n edges follow each other
adjacent(k, l, n) == l = succ(k, n) \/ k = succ(l, n)

\* a simple polygon: its vertices differ, edges that follow each other do
\* not fold back, and the other pairs of edges have no common point
simple_edges(P, E) ==
    /\ \A a, b \in 1..Len(P) : a # b => P[a] # P[b]
    /\ \A k, l \in 1..Len(P) :
          k < l =>
            IF adjacent(k, l, Len(P))
            THEN ~(cross(E[k].r, E[l].r) = Zero /\ Sign(dot(E[k].r, E[l].r)) < 0)
            ELSE ~touch(E[k], E[l])
simple(P) == simple_edges(P, get_edges(P))

\* a convex polygon: all vertices lie on one side of the line through any edge
convex(P) ==
    \A e \in Range(get_edges(P)) :
        \/ \A v \in Range(P) : side(e, v) >= 0
        \/ \A v \in Range(P) : side(e, v) <= 0

\* the simple polygons of 3..MaxVerts vertices on the grid
Polygons ==
    {P \in UNION {[1..n -> Grid] : n \in 3..MaxVerts} :
        get_area(P) # Zero /\ simple(P)}

\* a hit (i, p) of split: the index of an edge of E and the point
\* k / RandomSteps of the way along it, both ends included
hit(E, ix, k) == <<ix - 1, get_point_on_line(E[ix], Num(k, RandomSteps))>>

\* the arguments of split for a polygon P of edges E: hits on the edges
\* i1 and i2
split_input(P, E, i1, k1, i2, k2) ==
    [vertices |-> P, hits |-> <<hit(E, i1, k1), hit(E, i2, k2)>>]

InitSplit ==
    /\ fresh_canvas
    /\ pc = "call"
    /\ fn_out = None
    /\ mondrian = None
    /\ \E P \in Polygons :
          \E i1, i2 \in 1..Len(P) :
             \E k1, k2 \in 0..RandomSteps :
                /\ i1 < i2
                /\ fn_in = split_input(P, get_edges(P), i1, k1, i2, k2)

\* fn_out = Polygon(fn_in.vertices).split(fn_in.hits)
call_split ==
    /\ pc = "call"
    /\ fn_out' = split(fn_in.vertices, fn_in.hits)
    /\ pc' = "return"
    /\ UNCHANGED <<canvas_vars, fn_in, mondrian>>

SpecSplit == InitSplit /\ [][call_split]_vars

\* the vertex sequences [v1..v(i1), p1, p2, v(i2+1)..v(n-1), v0] and
\* [v(i1+1)..v(i2), p2, p1] (v0 is V[1])
expected_children(V, i1, p1, i2, p2) ==
    << SubSeq(V, 2, i1 + 1) \o <<p1, p2>> \o SubSeq(V, i2 + 2, Len(V))
          \o <<V[1]>>,
       SubSeq(V, i1 + 2, i2 + 1) \o <<p2, p1>> >>

children_as_claimed(V, h, out) ==
    out = expected_children(V, h[1][1], h[1][2], h[2][1], h[2][2])

areas_add_up(V, out) ==
    Len(out) = 2 /\ Add(get_area(out[1]), get_area(out[2])) = get_area(V)

\* C8 as claimed. For a polygon v0..v(n-1) and hits (i1, p1), (i2, p2) with
\* i1 < i2, p1 on edge i1 and p2 on edge i2, split returns the two polygons
\* [v1..v(i1), p1, p2, v(i2+1)..v(n-1), v0] and [v(i1+1)..v(i2), p2, p1],
\* and their areas sum to the area of the parent.
C8_SplitAnyPolygon ==
    pc = "return" =>
        /\ children_as_claimed(fn_in.vertices, fn_in.hits, fn_out)
        /\ areas_add_up(fn_in.vertices, fn_out)

\* C8, amended. split returns the two polygons with the vertex sequences
\* claimed; if the parent is convex, their areas sum to the parent's area.
C8_SplitConvexPolygon ==
    pc = "return" =>
        /\ children_as_claimed(fn_in.vertices, fn_in.hits, fn_out)
        /\ convex(fn_in.vertices) => areas_add_up(fn_in.vertices, fn_out)

\* a convex quadrilateral was split into two polygons that both have an area
C8_Witness ==
    /\ pc = "return" /\ Len(fn_in.vertices) = 4 /\ convex(fn_in.vertices)
    /\ get_area(fn_out[1]) # Zero /\ get_area(fn_out[2]) # Zero

-----------------------------------------------------------------------------
(* mondrian.py, class Mondrian: the axis-aligned variant. The object is the *)
(* record mondrian; a line is the pair (position, (end1, end2)), all in    *)
(* normalized coordinates, and mondrian.lines[o] is the list of the lines  *)
(* of orientation o.                                                       *)

HORIZONTAL == TRUE
VERTICAL == FALSE

\* width and height are 1..MaxSize pixels
MaxSize == 3
\* padding is 0..MaxPadding pixels
MaxPadding == 2
\* random.random() returns k / PosSteps for some k in 0..PosSteps-1
PosSteps == 4

\* the values random.random() may return in add_lines: [0, 1)
Positions == {Num(k, PosSteps) : k \in 0..(PosSteps - 1)}

\* self.tol: padding / width for HORIZONTAL, padding / height for VERTICAL
tol(width, height, padding) ==
    [o \in BOOLEAN |->
        IF o = HORIZONTAL THEN Div(Num(padding, 1), Num(width, 1))
                          ELSE Div(Num(padding, 1), Num(height, 1))]

\* the two borders of one orientation: (0, (0,1)) and (1, (0,1))
border_lines == << <<Zero, <<Zero, One>>>>, <<One, <<Zero, One>>>> >>

\* Mondrian.__init__ with the config width, height, padding, nlines; the
\* attribute orientations and the loop variable line exist from add_lines on
Mondrian(width, height, padding, n) ==
    [width |-> width, height |-> height, padding |-> padding, nlines |-> n,
     tol |-> tol(width, height, padding),
     lines |-> [o \in BOOLEAN |-> border_lines],
     orientations |-> <<>>, line |-> 0, raised |-> "none"]

\* Mondrian.too_close
too_close(self, parpos, parlines, orientation) ==
    \E k \in 1..Len(parlines) :
        Less(NAbs(Sub(parpos, parlines[k][1])), self.tol[orientation])

\* intersecting_lines of choose_endpoints
intersecting_lines(parpos, perplines) ==
    SelectSeq(perplines,
              LAMBDA l : Less(l[2][1], parpos) /\ Less(parpos, l[2][2]))

\* sorted([a, b])
sorted2(a, b) == IF Leq(a, b) THEN <<a, b>> ELSE <<b, a>>

\* sorted(random.sample([line[0] for line in il], 2)): the results it may
\* have; none where il has fewer than 2 lines, and random.sample raises
\* ValueError
sample_endpoints(il) ==
    {sorted2(il[w[1]][1], il[w[2]][1]) :
        w \in {v \in (1..Len(il)) \X (1..Len(il)) : v[1] # v[2]}}

\* Mondrian.choose_endpoints
choose_endpoints(parpos, perplines) ==
    sample_endpoints(intersecting_lines(parpos, perplines))

\* Mondrian.get_orientation: the orientations it may return
get_orientation(orientations) ==
    IF /\ Len(orientations) > 1
       /\ orientations[Len(orientations)] = orientations[Len(orientations) - 1]
    THEN {~orientations[Len(orientations)]}
    ELSE {HORIZONTAL, VERTICAL}

\* the order of the tuples (position, endpoints) that list.sort uses
line_less(a, b) ==
    \/ Less(a[1], b[1])
    \/ a[1] = b[1] /\ Less(a[2][1], b[2][1])
    \/ a[1] = b[1] /\ a[2][1] = b[2][1] /\ Less(a[2][2], b[2][2])

RECURSIVE sort_insert(_, _)
\* the sorted list S with the line x put in its place
sort_insert(x, S) ==
    IF S = <<>> THEN <<x>>
    ELSE IF line_less(x, Head(S)) THEN <<x>> \o S
    ELSE <<Head(S)>> \o sort_insert(x, Tail(S))

RECURSIVE sort(_)
\* list.sort
sort(S) == IF S = <<>> THEN <<>> ELSE sort_insert(Head(S), sort(Tail(S)))

\* a Mondrian made with some config, add_lines not yet called
InitMondrian ==
    /\ fresh_canvas
    /\ pc = "call"
    /\ fn_in = None
    /\ fn_out = None
    /\ \E width, height \in 1..MaxSize :
          \E padding \in 0..MaxPadding, n \in 0..MaxNLines :
             mondrian = Mondrian(width, height, padding, n)

\* add_lines is called: self.orientations = []
add_lines_begin ==
    /\ pc = "call"
    /\ pc' = "for"
    /\ mondrian' = [mondrian EXCEPT !.orientations = <<>>, !.line = 0]
    /\ UNCHANGED <<canvas_vars, fn_in, fn_out>>

\* self.lines[orientation].append((parpos, endpoints)), and the next line
append_line(self, orientation, parpos, ends2) ==
    [self EXCEPT !.orientations = Append(@, orientation),
                 !.lines[orientation] = Append(@, <<parpos, ends2>>),
                 !.line = @ + 1]

\* the exception exc leaves add_lines after get_orientation
leave_add_lines(self, orientation, exc) ==
    [self EXCEPT !.orientations = Append(@, orientation), !.raised = exc]

\* the "for" body from choose_endpoints on, ends being what it may return
add_line_between(orientation, parpos, ends) ==
    IF ends = {}
    THEN /\ mondrian' = leave_add_lines(mondrian, orientation, "ValueError")
         /\ pc' = "raised"
    ELSE /\ \E ends2 \in ends :
               mondrian' = append_line(mondrian, orientation, parpos, ends2)
         /\ pc' = "for"

\* one pass of the "for" loop of add_lines: the orientation, the "while
\* True" loop until a parpos is not too close (it goes on for ever where
\* every position is too close), the endpoints and the append
add_lines_iter ==
    /\ pc = "for"
    /\ mondrian.line < mondrian.nlines
    /\ \E orientation \in get_orientation(mondrian.orientations) :
          \E parpos \in Positions :
             /\ ~too_close(mondrian, parpos, mondrian.lines[orientation],
                           orientation)
             /\ add_line_between(orientation, parpos,
                    choose_endpoints(parpos, mondrian.lines[~orientation]))
    /\ UNCHANGED <<canvas_vars, fn_in, fn_out>>

\* the "for" loop ends: both lists are sorted and add_lines returns
add_lines_return ==
    /\ pc = "for"
    /\ mondrian.line = mondrian.nlines
    /\ pc' = "return"
    /\ mondrian' = [mondrian EXCEPT !.lines = [o \in BOOLEAN |-> sort(@[o])]]
    /\ UNCHANGED <<canvas_vars, fn_in, fn_out>>

NextMondrian ==
    \/ add_lines_begin
    \/ add_lines_iter
    \/ add_lines_return

SpecMondrian == InitMondrian /\ [][NextMondrian]_vars

\* where make_svg draws the line at position pos: horizontal lines are
\* scaled by the height, vertical lines by the width
pixels(self, orientation, pos) ==
    Mul(pos, Num(IF orientation = HORIZONTAL THEN self.height ELSE self.width,
                 1))

\* the lines a and b of mondrian.lines[o] are at least padding pixels apart
apart(ls, o, a, b) ==
    Leq(Num(mondrian.padding, 1),
        NAbs(Sub(pixels(mondrian, o, ls[a][1]), pixels(mondrian, o, ls[b][1]))))

\* the borders themselves are at least padding pixels apart
borders_apart(self) ==
    self.padding <= self.width /\ self.padding <= self.height

\* C11. Parallel lines never get closer than padding pixels: in every state
\* of add_lines, for a config whose borders are at least padding pixels
\* apart, any two distinct lines of the same orientation, borders included,
\* are at least padding pixels apart once their positions are scaled to
\* pixels.
C11_PaddingKept ==
    borders_apart(mondrian) =>
        \A o \in BOOLEAN :
            \A a, b \in 1..Len(mondrian.lines[o]) :
                a # b => apart(mondrian.lines[o], o, a, b)

====
